---- MODULE Spec2Model ----
(***************************************************************************)
(* Cold-storage anomaly detection: the per-sensor incremental statistics   *)
(* engine (cold_storage/sensor.py), its configuration                      *)
(* (config/parameters.py), the timestamp helpers (cold_storage/helpers.py) *)
(* and the Director that replays the event history and relays stream       *)
(* events to the sensors (cold_storage/director.py).                       *)
(*                                                                         *)
(* Time is in seconds, as in the code.  Temperatures are exact dyadic      *)
(* rationals held as integers in units of 1/16 degree: inputs are whole    *)
(* degrees (multiples of 16), and every median of medians the algorithm    *)
(* forms is then an integer, so no rounding enters the model.              *)
(***************************************************************************)
EXTENDS Integers, Sequences, FiniteSets, TLC

VARIABLES
    params,         \* config/parameters.py: the configuration constants in force
    args_path,      \* Director.args['path'] given (a local .csv file is used)
    fetch_history,  \* Director.fetch_history
    devices,        \* Director.devices
    sensors,        \* Director.sensors: device id -> Sensor
    event_history,  \* Director.event_history
    pc,             \* position of the process (sensor_stream.py __main__)
    i_hist,         \* run_history: number of history events already served
    nth_reconnect,  \* run_stream: the reconnect counter
    n_reconnects,   \* run_stream: its parameter
    n_streamed,     \* number of stream events received so far
    raised          \* the exception that ended the process, or "none"

vars == <<params, args_path, fetch_history, devices, sensors, event_history,
          pc, i_hist, nth_reconnect, n_reconnects, n_streamed, raised>>

---------------------------------------------------------------------------
(* Bounds of the model.                                                    *)

\* SpecFeed: samples fed to the one sensor
MaxSamples == 4
\* Spec: events of the history plus events received from the stream
MaxEvents == 3
\* SpecScenario: samples of the 10-minute scenario (10 hours = 61 samples)
MaxScenarioSamples == 61
\* SpecReplay: samples fed to each of the two sensors
MaxReplaySamples == 3
\* SpecConfig: S_ROBUST_CYCLE in whole hours, N_ROBUST_DAYS, samples fed
MaxCycleHours == 24
MaxRobustDays == 5
MaxConfigSamples == 2

---------------------------------------------------------------------------
(* config/parameters.py                                                    *)

H_DELAY == 3
S_DELAY == 60*60*H_DELAY
S_ROBUST_CYCLE == 60*60*16
S_ROBUST_WIDTH == 60*60*24
N_ROBUST_DAYS == 5
\* the value of N_ROBUST_IN_BOUNDS with half windows counted as whole:
\* round half up instead of int()
n_robust_in_bounds_round(s_robust_cycle, n_robust_days) ==
    (2 * (60*60*24) * n_robust_days + s_robust_cycle) \div (2 * s_robust_cycle)

\* int(((60*60*24) / S_ROBUST_CYCLE) * N_ROBUST_DAYS) as a function of the
\* two constants it is computed from: int() truncates
n_robust_in_bounds(s_robust_cycle, n_robust_days) ==
    ((60*60*24) * n_robust_days) \div s_robust_cycle

N_ROBUST_IN_BOUNDS == n_robust_in_bounds(S_ROBUST_CYCLE, N_ROBUST_DAYS)
MMAD == 1
BOUND_MINVAL == 0

\* the constants as parameters.py sets them
DefaultParams ==
    [S_DELAY |-> S_DELAY, S_ROBUST_CYCLE |-> S_ROBUST_CYCLE,
     S_ROBUST_WIDTH |-> S_ROBUST_WIDTH, N_ROBUST_IN_BOUNDS |-> N_ROBUST_IN_BOUNDS,
     MMAD |-> MMAD, BOUND_MINVAL |-> BOUND_MINVAL]

\* parameters.py edited to the test scenario's configuration:
\* DELAY = 1h, ROBUST_CYCLE = 2h, ROBUST_WIDTH = 4h, N_ROBUST_IN_BOUNDS = 2
ScenarioParams ==
    [S_DELAY |-> 60*60*1, S_ROBUST_CYCLE |-> 60*60*2,
     S_ROBUST_WIDTH |-> 60*60*4, N_ROBUST_IN_BOUNDS |-> 2,
     MMAD |-> MMAD, BOUND_MINVAL |-> BOUND_MINVAL]

\* the scenario's configuration with a band floor of one degree
FloorParams ==
    [ScenarioParams EXCEPT !.BOUND_MINVAL = 16]

\* parameters.py edited to a daily robust cycle with one day of history
\* (N_ROBUST_IN_BOUNDS = int(((60*60*24) / S_ROBUST_CYCLE) * 1) = 1) and a
\* MAD multiplier of 2
DailyParams ==
    [S_DELAY |-> S_DELAY, S_ROBUST_CYCLE |-> 60*60*24,
     S_ROBUST_WIDTH |-> S_ROBUST_WIDTH,
     N_ROBUST_IN_BOUNDS |-> ((60*60*24) * 1) \div (60*60*24),
     MMAD |-> 2, BOUND_MINVAL |-> BOUND_MINVAL]

\* parameters.py with S_ROBUST_CYCLE and N_ROBUST_DAYS edited, the other
\* constants as they are; N_ROBUST_DAYS is kept beside the value computed
\* from it
ConfigParams(s_robust_cycle, n_robust_days) ==
    [S_DELAY |-> S_DELAY, S_ROBUST_CYCLE |-> s_robust_cycle,
     S_ROBUST_WIDTH |-> S_ROBUST_WIDTH, N_ROBUST_DAYS |-> n_robust_days,
     N_ROBUST_IN_BOUNDS |-> n_robust_in_bounds(s_robust_cycle, n_robust_days),
     MMAD |-> MMAD, BOUND_MINVAL |-> BOUND_MINVAL]

---------------------------------------------------------------------------
(* Sequences, numpy                                                        *)

Last(s) == s[Len(s)]

Range(s) == {s[i] : i \in 1..Len(s)}

RECURSIVE Insert(_, _)
\* x put into the sorted sequence s, after the elements equal to it
Insert(x, s) ==
    IF s = <<>> THEN <<x>>
    ELSE IF x < Head(s) THEN <<x>> \o s
    ELSE <<Head(s)>> \o Insert(x, Tail(s))

RECURSIVE Sorted(_)
\* np.sort
Sorted(s) == IF s = <<>> THEN <<>> ELSE Insert(Last(s), Sorted(SubSeq(s, 1, Len(s) - 1)))

\* np.median of a non-empty array: the middle of the sorted values, the mean
\* of the two middle values when their number is even
Median(s) ==
    LET o == Sorted(s)
        n == Len(o)
    IN  IF n % 2 = 1 THEN o[(n + 1) \div 2]
        ELSE (o[n \div 2] + o[n \div 2 + 1]) \div 2

RECURSIVE SeqMax(_)
SeqMax(s) ==
    IF Len(s) = 1 THEN s[1]
    ELSE LET m == SeqMax(Tail(s)) IN IF s[1] > m THEN s[1] ELSE m

RECURSIVE SeqMin(_)
SeqMin(s) ==
    IF Len(s) = 1 THEN s[1]
    ELSE LET m == SeqMin(Tail(s)) IN IF s[1] < m THEN s[1] ELSE m

Max2(a, b) == IF a > b THEN a ELSE b
Min2(a, b) == IF a < b THEN a ELSE b
Abs(x) == IF x < 0 THEN -x ELSE x

RECURSIVE Take(_, _)
\* a[mask] for a boolean mask of the length of a: the elements at the
\* positions where the mask is true, in order
Take(a, mask) ==
    IF a = <<>> THEN <<>>
    ELSE (IF Head(mask) THEN <<Head(a)>> ELSE <<>>) \o Take(Tail(a), Tail(mask))

\* s[-n:] for n > 0
LastN(s, n) == IF Len(s) <= n THEN s ELSE SubSeq(s, Len(s) - n + 1, Len(s))

---------------------------------------------------------------------------
(* cold_storage/helpers.py                                                 *)

\* An API timestamp is held as the instant it denotes, in ticks of 1/10 s
\* since 1 January 1970 (the code's nanoseconds, coarsened).
TicksPerSecond == 10

\* convert_event_data_timestamp: the unixtime it returns, whole seconds
convert_event_data_timestamp(ts) == ts \div TicksPerSecond

\* dt_timestamp_format of pd.to_datetime(unix_time, unit='s'): the timestamp
\* string, which has whole seconds
dt_timestamp_format(unix_time) == unix_time * TicksPerSecond

\* api_json_format
api_json_format(timestamp, temperature) ==
    [targetName |-> <<"local_file">>,
     data |-> [temperature |-> [value |-> temperature, updateTime |-> timestamp]]]

\* import_as_event_history: one event per row of the file, in the file's order
import_as_event_history(rows) ==
    [i \in 1..Len(rows) |->
        api_json_format(dt_timestamp_format(rows[i].unix_time), rows[i].temperature)]

\* json_sort_key
json_sort_key(json) == convert_event_data_timestamp(json.data.temperature.updateTime)

\* os.path.basename of a name held as its path components
basename(name) == Last(name)

---------------------------------------------------------------------------
(* cold_storage/sensor.py                                                  *)

\* Sensor.__init__
Sensor(device, device_id) ==
    [device_id |-> device_id,
     temperature_ux |-> <<>>, temperature_y |-> <<>>,
     level_ux |-> <<>>, level_y |-> <<>>,
     minval_ux |-> <<>>, minval_y |-> <<>>,
     maxval_ux |-> <<>>, maxval_y |-> <<>>,
     mad_ux |-> <<>>, mad_y |-> <<>>,
     upper_bound_ux |-> <<>>, upper_bound_y |-> <<>>,
     lower_bound_ux |-> <<>>, lower_bound_y |-> <<>>,
     n_samples |-> 0, robust_cycle |-> 0]

\* What a call leaves behind: the object as mutated so far, and the
\* exception it raised ("none": it returned).
Returned(s) == [s |-> s, err |-> "none"]
Raised(s, e) == [s |-> s, err |-> e]

\* RobustMask with the window ending at the current sample, not DELAY
\* before it
RobustMaskToNow(s, p) ==
    LET t1 == Last(s.temperature_ux) - p.S_DELAY - p.S_ROBUST_WIDTH
        t2 == Last(s.temperature_ux)
    IN  [i \in 1..Len(s.temperature_ux) |->
            (s.temperature_ux[i] >= t1) /\ (s.temperature_ux[i] <= t2)]

\* the robust window's mask over temperature_ux (sensor.py:107-110)
RobustMask(s, p) ==
    LET t1 == Last(s.temperature_ux) - p.S_DELAY - p.S_ROBUST_WIDTH
        t2 == Last(s.temperature_ux) - p.S_DELAY
    IN  [i \in 1..Len(s.temperature_ux) |->
            (s.temperature_ux[i] >= t1) /\ (s.temperature_ux[i] <= t2)]

\* RobustDeviation that takes the temperatures of the window as they are,
\* the level not subtracted
RobustDeviationRaw(s, p) ==
    Take(s.temperature_y, RobustMask(s, p))

\* RobustDeviation that takes the latest level for every sample of the
\* window, not the level at the sample's own position
RobustDeviationLatestLevel(s, p) ==
    LET robust_window == Take(s.temperature_y, RobustMask(s, p))
    IN  [i \in 1..Len(robust_window) |-> robust_window[i] - Last(s.level_y)]

\* the deviations of the robust window from the level (sensor.py:109-110,
\* 121): temperature minus the level at the same positions
RobustDeviation(s, p) ==
    LET robust_window == Take(s.temperature_y, RobustMask(s, p))
        robust_level  == Take(s.level_y, RobustMask(s, p))
    IN  [i \in 1..Len(robust_window) |-> robust_window[i] - robust_level[i]]

\* RobustEntries with bounded retention: once more than N_ROBUST_IN_BOUNDS
\* entries exist the oldest is dropped
RobustEntriesRolling(s, p) ==
    LET yy == RobustDeviation(s, p)
        med == Median(yy)
        keep(q) == IF Len(q) > p.N_ROBUST_IN_BOUNDS THEN Tail(q) ELSE q
    IN  [s EXCEPT
           !.minval_ux = keep(Append(@, Last(s.temperature_ux) - p.S_DELAY)),
           !.maxval_ux = keep(Append(@, Last(s.temperature_ux) - p.S_DELAY)),
           !.maxval_y = keep(Append(@, SeqMax(yy))),
           !.minval_y = keep(Append(@, SeqMin(yy))),
           !.mad_ux = keep(Append(@, Last(s.temperature_ux) - p.S_DELAY)),
           !.mad_y = keep(Append(@, Median([i \in 1..Len(yy) |-> Abs(yy[i] - med)])))]

\* the entries robust_sampling appends for a non-empty window
\* (sensor.py:113-122)
RobustEntries(s, p) ==
    LET yy == RobustDeviation(s, p)
        med == Median(yy)
    IN  [s EXCEPT
           !.minval_ux = Append(@, Last(s.temperature_ux) - p.S_DELAY),
           !.maxval_ux = Append(@, Last(s.temperature_ux) - p.S_DELAY),
           !.maxval_y = Append(@, SeqMax(yy)),
           !.minval_y = Append(@, SeqMin(yy)),
           !.mad_ux = Append(@, Last(s.temperature_ux) - p.S_DELAY),
           !.mad_y = Append(@, Median([i \in 1..Len(yy) |-> Abs(yy[i] - med)]))]

\* robust_sampling that drops the robust statistics when its window is
\* empty
robust_sampling_reset(s, p) ==
    LET mask == RobustMask(s, p)
    IN  IF Len(s.temperature_y) # Len(mask) \/ Len(s.level_y) # Len(mask)
        THEN Raised(s, "IndexError")
        ELSE
        LET robust_window == Take(s.temperature_y, mask)
            s1 == IF Len(robust_window) > 0 THEN RobustEntries(s, p)
                  ELSE [s EXCEPT !.minval_ux = <<>>, !.minval_y = <<>>,
                                 !.maxval_ux = <<>>, !.maxval_y = <<>>,
                                 !.mad_ux = <<>>, !.mad_y = <<>>]
        IN  Returned([s1 EXCEPT !.robust_cycle = Last(s.temperature_ux)])

\* robust_sampling that appends zero statistics when its window is empty
robust_sampling_pad(s, p) ==
    LET mask == RobustMask(s, p)
    IN  IF Len(s.temperature_y) # Len(mask) \/ Len(s.level_y) # Len(mask)
        THEN Raised(s, "IndexError")
        ELSE
        LET robust_window == Take(s.temperature_y, mask)
            stamp == Last(s.temperature_ux) - p.S_DELAY
            s1 == IF Len(robust_window) > 0 THEN RobustEntries(s, p)
                  ELSE [s EXCEPT !.minval_ux = Append(@, stamp), !.minval_y = Append(@, 0),
                                 !.maxval_ux = Append(@, stamp), !.maxval_y = Append(@, 0),
                                 !.mad_ux = Append(@, stamp), !.mad_y = Append(@, 0)]
        IN  Returned([s1 EXCEPT !.robust_cycle = Last(s.temperature_ux)])

\* robust_sampling that consumes the cycle only when its window held data
robust_sampling_keep_cycle(s, p) ==
    LET mask == RobustMask(s, p)
    IN  IF Len(s.temperature_y) # Len(mask) \/ Len(s.level_y) # Len(mask)
        THEN Raised(s, "IndexError")
        ELSE
        LET robust_window == Take(s.temperature_y, mask)
        IN  IF Len(robust_window) > 0
            THEN Returned([RobustEntries(s, p) EXCEPT !.robust_cycle = Last(s.temperature_ux)])
            ELSE Returned(s)

\* Sensor.robust_sampling
robust_sampling(s, p) ==
    LET mask == RobustMask(s, p)
    IN  IF Len(s.temperature_y) # Len(mask) \/ Len(s.level_y) # Len(mask)
        THEN \* numpy: boolean index did not match indexed array
             Raised(s, "IndexError")
        ELSE
        LET robust_window == Take(s.temperature_y, mask)
            s1 == IF Len(robust_window) > 0 THEN RobustEntries(s, p) ELSE s
        IN  Returned([s1 EXCEPT !.robust_cycle = Last(s.temperature_ux)])

\* LevelStep with no delay: the window is the samples newer than the
\* current one, and the level's stamp is the current time
LevelStepNoDelay(s, p) ==
    LET mask == [i \in 1..Len(s.temperature_ux) |->
                    s.temperature_ux[i] > Last(s.temperature_ux)]
    IN  IF Len(s.temperature_y) # Len(mask)
        THEN Raised(s, "IndexError")
        ELSE
        LET delay_window == Take(s.temperature_y, mask)
        IN  IF Len(delay_window) > 0
            THEN Returned([s EXCEPT
                    !.level_ux = Append(@, Last(s.temperature_ux)),
                    !.level_y = Append(@, Median(delay_window))])
            ELSE Returned(s)

\* LevelStep whose window takes the sample at exactly t - 2*DELAY too
LevelStepInclusive(s, p) ==
    LET mask == [i \in 1..Len(s.temperature_ux) |->
                    s.temperature_ux[i] >= Last(s.temperature_ux) - 2*p.S_DELAY]
    IN  IF Len(s.temperature_y) # Len(mask)
        THEN Raised(s, "IndexError")
        ELSE
        LET delay_window == Take(s.temperature_y, mask)
        IN  IF Len(delay_window) > 0
            THEN Returned([s EXCEPT
                    !.level_ux = Append(@, Last(s.temperature_ux) - p.S_DELAY),
                    !.level_y = Append(@, Median(delay_window))])
            ELSE Returned(s)

\* the baseline step of Sensor.iterate (sensor.py:68-73)
LevelStep(s, p) ==
    LET mask == [i \in 1..Len(s.temperature_ux) |->
                    s.temperature_ux[i] > Last(s.temperature_ux) - 2*p.S_DELAY]
    IN  IF Len(s.temperature_y) # Len(mask)
        THEN Raised(s, "IndexError")
        ELSE
        LET delay_window == Take(s.temperature_y, mask)
        IN  IF Len(delay_window) > 0
            THEN Returned([s EXCEPT
                    !.level_ux = Append(@, Last(s.temperature_ux) - p.S_DELAY),
                    !.level_y = Append(@, Median(delay_window))])
            ELSE Returned(s)

\* RobustStep without the cycle's gate: robust sampling on every sample
RobustStepUngated(s, p) == robust_sampling(s, p)

\* RobustStep that is due as soon as a full cycle has passed
RobustStepInclusive(s, p) ==
    IF Last(s.temperature_ux) - s.robust_cycle >= p.S_ROBUST_CYCLE
    THEN robust_sampling(s, p)
    ELSE Returned(s)

\* the robust step of Sensor.iterate (sensor.py:75-77)
RobustStep(s, p) ==
    IF Last(s.temperature_ux) - s.robust_cycle > p.S_ROBUST_CYCLE
    THEN robust_sampling(s, p)
    ELSE Returned(s)

\* n_bounds that takes every robust entry there is
NBoundsAll(s, p) == Len(s.mad_y)

\* n_bounds (sensor.py:80)
NBounds(s, p) == Min2(Len(s.mad_y), p.N_ROBUST_IN_BOUNDS)

\* UpperOffset without the floor BOUND_MINVAL
UpperOffsetNoFloor(s, p, n_bounds) ==
    Median(LastN(s.maxval_y, n_bounds)) + Median(LastN(s.mad_y, n_bounds)) * p.MMAD

\* upper_value before the level is added (sensor.py:83)
UpperOffset(s, p, n_bounds) ==
    Max2(p.BOUND_MINVAL,
         Median(LastN(s.maxval_y, n_bounds)) + Median(LastN(s.mad_y, n_bounds)) * p.MMAD)

\* lower_value before the level is added (sensor.py:84)
LowerOffset(s, p, n_bounds) ==
    Min2(-p.BOUND_MINVAL,
         Median(LastN(s.minval_y, n_bounds)) - Median(LastN(s.mad_y, n_bounds)) * p.MMAD)

\* CalculatedBounds stamped with the time of the sample itself
CalculatedBoundsUndelayed(s, p) ==
    [s EXCEPT
       !.upper_bound_ux = Append(@, Last(s.temperature_ux)),
       !.upper_bound_y = Append(@, Last(s.level_y) + UpperOffset(s, p, NBounds(s, p))),
       !.lower_bound_ux = Append(@, Last(s.temperature_ux)),
       !.lower_bound_y = Append(@, Last(s.level_y) + LowerOffset(s, p, NBounds(s, p)))]

\* the bounds appended when robust statistics exist (sensor.py:82-94)
CalculatedBounds(s, p) ==
    [s EXCEPT
       !.upper_bound_ux = Append(@, Last(s.temperature_ux) - p.S_DELAY),
       !.upper_bound_y = Append(@, Last(s.level_y) + UpperOffset(s, p, NBounds(s, p))),
       !.lower_bound_ux = Append(@, Last(s.temperature_ux) - p.S_DELAY),
       !.lower_bound_y = Append(@, Last(s.level_y) + LowerOffset(s, p, NBounds(s, p)))]

\* the bounds appended when no robust statistics exist (sensor.py:96-100)
PaddedBounds(s, p) ==
    [s EXCEPT
       !.upper_bound_ux = Append(@, Last(s.temperature_ux) - p.S_DELAY),
       !.upper_bound_y = Append(@, Last(s.temperature_y)),
       !.lower_bound_ux = Append(@, Last(s.temperature_ux) - p.S_DELAY),
       !.lower_bound_y = Append(@, Last(s.temperature_y))]

\* BoundStep that appends nothing while no robust statistics exist
BoundStepNoPad(s, p) ==
    IF NBounds(s, p) > 0
    THEN IF s.level_y = <<>> THEN Raised(s, "IndexError")
         ELSE Returned(CalculatedBounds(s, p))
    ELSE Returned(s)

\* BoundStep that pads with the level, not with the temperature
BoundStepPadLevel(s, p) ==
    IF NBounds(s, p) > 0
    THEN IF s.level_y = <<>> THEN Raised(s, "IndexError")
         ELSE Returned(CalculatedBounds(s, p))
    ELSE Returned([s EXCEPT
            !.upper_bound_ux = Append(@, Last(s.temperature_ux) - p.S_DELAY),
            !.upper_bound_y = Append(@, Last(s.level_y)),
            !.lower_bound_ux = Append(@, Last(s.temperature_ux) - p.S_DELAY),
            !.lower_bound_y = Append(@, Last(s.level_y))])

\* the bound step of Sensor.iterate (sensor.py:79-100)
BoundStep(s, p) ==
    IF NBounds(s, p) > 0
    THEN IF s.level_y = <<>>
         THEN Raised(s, "IndexError")    \* level_y[-1] of an empty list
         ELSE Returned(CalculatedBounds(s, p))
    ELSE Returned(PaddedBounds(s, p))

\* iterate with the bounds calculated before the robust sampling
iterate_bounds_first(s, p) ==
    LET a == LevelStep(s, p)
    IN  IF a.err # "none" THEN a
        ELSE LET b == BoundStep(a.s, p)
             IN  IF b.err # "none" THEN b ELSE RobustStep(b.s, p)

\* Sensor.iterate: baseline, robust sampling when its cycle is due, bounds
iterate(s, p) ==
    LET a == LevelStep(s, p)
    IN  IF a.err # "none" THEN a
        ELSE LET b == RobustStep(a.s, p)
             IN  IF b.err # "none" THEN b ELSE BoundStep(b.s, p)

\* Sensor.new_event_data
Sensor_new_event_data(s, event_data, p) ==
    IF "updateTime" \notin DOMAIN event_data.data.temperature
    THEN Raised(s, "KeyError")
    ELSE
    LET unixtime == convert_event_data_timestamp(event_data.data.temperature.updateTime)
        s1 == [s EXCEPT !.temperature_ux = Append(@, unixtime)]
    IN  IF "value" \notin DOMAIN event_data.data.temperature
        THEN Raised(s1, "KeyError")
        ELSE iterate([s1 EXCEPT
                        !.temperature_y = Append(@, event_data.data.temperature.value),
                        !.n_samples = @ + 1], p)

---------------------------------------------------------------------------
(* cold_storage/director.py                                                *)

\* Director.__fetch_project_devices: the project's devices, as the API lists
\* them; h1 is no temperature sensor
ProjectDevices ==
    << [name |-> <<"projects", "p1", "devices", "s1">>, type |-> "temperature"],
       [name |-> <<"projects", "p1", "devices", "s2">>, type |-> "temperature"],
       [name |-> <<"projects", "p1", "devices", "h1">>, type |-> "humidity"] >>

\* Director.__local_setup: the fake list of devices
LocalDevices == << [name |-> <<"local_file">>, type |-> "temperature"] >>

\* Director.__spawn_devices: one Sensor per temperature device, keyed by id
spawn_devices(devs) ==
    LET ids == {basename(devs[i].name) : i \in {j \in 1..Len(devs) : devs[j].type = "temperature"}}
    IN  [id \in ids |-> Sensor(CHOOSE d \in Range(devs) : basename(d.name) = id, id)]

RECURSIVE InsertByKey(_, _)
\* e put into the key-sorted list s, after the events of equal key
InsertByKey(e, s) ==
    IF s = <<>> THEN <<e>>
    ELSE IF json_sort_key(e) < json_sort_key(Head(s)) THEN <<e>> \o s
    ELSE <<Head(s)>> \o InsertByKey(e, Tail(s))

RECURSIVE SortedByKey(_)
\* list.sort(key=hlp.json_sort_key, reverse=False): stable
SortedByKey(s) ==
    IF s = <<>> THEN <<>>
    ELSE InsertByKey(Last(s), SortedByKey(SubSeq(s, 1, Len(s) - 1)))

\* Director.__fetch_event_history: the pages of every device, concatenated
\* (listing), then sorted in time
fetch_event_history(listing) == SortedByKey(listing)

\* __new_event_data with the robust cycle tracker shared by all sensors (a
\* class attribute instead of an instance attribute)
Director_new_event_data_shared(sens, event_data, p) ==
    LET source_id == basename(event_data.targetName)
    IN  IF "temperature" \in DOMAIN event_data.data /\ source_id \in DOMAIN sens
        THEN LET r == Sensor_new_event_data(sens[source_id], event_data, p)
             IN  [sensors |-> [id \in DOMAIN sens |->
                                 IF id = source_id THEN r.s
                                 ELSE [sens[id] EXCEPT !.robust_cycle = r.s.robust_cycle]],
                  err |-> r.err]
        ELSE [sensors |-> sens, err |-> "none"]

\* __new_event_data that serves a temperature event to every sensor,
\* whichever device it came from
Director_new_event_data_broadcast(sens, event_data, p) ==
    IF "temperature" \in DOMAIN event_data.data
    THEN LET r == [id \in DOMAIN sens |-> Sensor_new_event_data(sens[id], event_data, p)]
         IN  [sensors |-> [id \in DOMAIN sens |-> r[id].s],
              err |-> IF \A id \in DOMAIN sens : r[id].err = "none" THEN "none"
                      ELSE (CHOOSE e \in {r[id].err : id \in DOMAIN sens} : e # "none")]
    ELSE [sensors |-> sens, err |-> "none"]

\* Director.__new_event_data: the sensors after the call and the exception
\* that came out of it
Director_new_event_data(sens, event_data, p) ==
    LET source_id == basename(event_data.targetName)
    IN  IF "temperature" \in DOMAIN event_data.data
        THEN IF source_id \in DOMAIN sens
             THEN LET r == Sensor_new_event_data(sens[source_id], event_data, p)
                  IN  [sensors |-> [sens EXCEPT ![source_id] = r.s], err |-> r.err]
             ELSE [sensors |-> sens, err |-> "none"]
        ELSE [sensors |-> sens, err |-> "none"]

---------------------------------------------------------------------------
(* Inputs                                                                  *)

TargetName(id) == <<"projects", "p1", "devices", id>>

\* a temperature event as the API sends it
TemperatureEvent(id, ts, v) ==
    [targetName |-> TargetName(id),
     data |-> [temperature |-> [value |-> v, updateTime |-> ts]]]

\* a temperature event whose record lacks 'value'
NoValueEvent(id, ts) ==
    [targetName |-> TargetName(id), data |-> [temperature |-> [updateTime |-> ts]]]

\* a temperature event whose record lacks 'updateTime'
NoUpdateTimeEvent(id, v) ==
    [targetName |-> TargetName(id), data |-> [temperature |-> [value |-> v]]]

\* an event of another type: its data holds no temperature record
OtherEvent(id, ts) ==
    [targetName |-> TargetName(id), data |-> [touch |-> [updateTime |-> ts]]]

\* 4.0 and 20.0 degrees
Values == {4*16, 20*16}

\* device ids events come from: s3 is a device the Director has not listed
EventIds == {"s1", "s2", "s3"}

\* instants of the Director's events, in ticks: 0 h, 17 h, 17 h and 0.5 s
EventInstants == {0, 61200*TicksPerSecond, 61200*TicksPerSecond + 5}

WellFormedEvents ==
    {TemperatureEvent(id, ts, v) : id \in EventIds, ts \in EventInstants, v \in Values}

MalformedEvents ==
    {NoValueEvent(id, 0) : id \in EventIds}
      \cup {NoUpdateTimeEvent(id, 4*16) : id \in EventIds}

StreamEvents ==
    WellFormedEvents \cup MalformedEvents \cup {OtherEvent(id, 0) : id \in EventIds}

\* what the history API can list: temperature events (the request filters on
\* the event type) of the project's temperature sensors, with an update time
\* for json_sort_key to read
HistoryIds == {"s1", "s2"}

HistoryEvents ==
    {TemperatureEvent(id, ts, v) : id \in HistoryIds, ts \in EventInstants, v \in Values}
      \cup {NoValueEvent(id, 0) : id \in HistoryIds}

\* rows of a local .csv file
CsvRows == [unix_time : {0, 61200}, temperature : Values]

SeqsUpTo(S, n) == UNION {[1..k -> S] : k \in 0..n}

n_reconnects_values == {1, 5}

---------------------------------------------------------------------------
(* The process: sensor_stream.py __main__ builds the Director, runs the    *)
(* history, then runs the stream.                                          *)

\* Director.__init__ with --path: local setup, file imported as it is
InitLocal ==
    /\ args_path = TRUE
    /\ fetch_history = TRUE
    /\ devices = LocalDevices
    /\ sensors = spawn_devices(LocalDevices)
    /\ \E rows \in SeqsUpTo(CsvRows, MaxEvents) :
          event_history = import_as_event_history(rows)

\* Director.__init__ without --path: devices and history from the API
InitApi ==
    /\ args_path = FALSE
    /\ devices = ProjectDevices
    /\ sensors = spawn_devices(ProjectDevices)
    /\ \/ /\ fetch_history = FALSE
          /\ event_history = <<>>
       \/ /\ fetch_history = TRUE
          /\ \E listing \in SeqsUpTo(HistoryEvents, MaxEvents) :
                event_history = fetch_event_history(listing)

Init ==
    /\ params = DefaultParams
    /\ InitLocal \/ InitApi
    /\ pc = "run_history"
    /\ i_hist = 0
    /\ nth_reconnect = 0
    /\ n_reconnects \in n_reconnects_values
    /\ n_streamed = 0
    /\ raised = "none"

\* run_history without a history to fetch: returns at once
RunHistorySkip ==
    /\ pc = "run_history"
    /\ ~fetch_history
    /\ pc' = "run_stream"
    /\ UNCHANGED <<params, args_path, fetch_history, devices, sensors, event_history,
                   i_hist, nth_reconnect, n_reconnects, n_streamed, raised>>

\* run_history: the next event of the history is served; an exception is
\* not caught and ends the process
RunHistoryEvent ==
    /\ pc = "run_history"
    /\ fetch_history
    /\ i_hist < Len(event_history)
    /\ LET r == Director_new_event_data(sensors, event_history[i_hist + 1], params)
       IN  /\ sensors' = r.sensors
           /\ raised' = r.err
           /\ IF r.err = "none"
              THEN i_hist' = i_hist + 1 /\ pc' = pc
              ELSE i_hist' = i_hist /\ pc' = "crashed"
    /\ UNCHANGED <<params, args_path, fetch_history, devices, event_history,
                   nth_reconnect, n_reconnects, n_streamed>>

\* run_history: the loop is over
RunHistoryDone ==
    /\ pc = "run_history"
    /\ fetch_history
    /\ i_hist = Len(event_history)
    /\ pc' = "run_stream"
    /\ UNCHANGED <<params, args_path, fetch_history, devices, sensors, event_history,
                   i_hist, nth_reconnect, n_reconnects, n_streamed, raised>>

\* run_stream with a local file: returns at once
RunStreamLocal ==
    /\ pc = "run_stream"
    /\ args_path
    /\ pc' = "done"
    /\ UNCHANGED <<params, args_path, fetch_history, devices, sensors, event_history,
                   i_hist, nth_reconnect, n_reconnects, n_streamed, raised>>

\* run_stream: nth_reconnect = 0, on to the loop
RunStreamStart ==
    /\ pc = "run_stream"
    /\ ~args_path
    /\ nth_reconnect' = 0
    /\ pc' = "while"
    /\ UNCHANGED <<params, args_path, fetch_history, devices, sensors, event_history,
                   i_hist, n_reconnects, n_streamed, raised>>

\* run_stream: the loop's condition fails
RunStreamExit ==
    /\ pc = "while"
    /\ ~(nth_reconnect < n_reconnects)
    /\ pc' = "done"
    /\ UNCHANGED <<params, args_path, fetch_history, devices, sensors, event_history,
                   i_hist, nth_reconnect, n_reconnects, n_streamed, raised>>

\* run_stream: the loop's condition holds, the try block is entered and the
\* reconnect counter is reset
Try ==
    /\ pc = "while"
    /\ nth_reconnect < n_reconnects
    /\ nth_reconnect' = 0
    /\ pc' = "try"
    /\ UNCHANGED <<params, args_path, fetch_history, devices, sensors, event_history,
                   i_hist, n_reconnects, n_streamed, raised>>

\* run_stream: the request succeeds
Connect ==
    /\ pc = "try"
    /\ pc' = "events"
    /\ UNCHANGED <<params, args_path, fetch_history, devices, sensors, event_history,
                   i_hist, nth_reconnect, n_reconnects, n_streamed, raised>>

\* run_stream: the request raises ConnectionError or ChunkedEncodingError,
\* the counter is incremented; sleep, loop
ConnectFail ==
    /\ pc = "try"
    /\ nth_reconnect' = nth_reconnect + 1
    /\ pc' = "while"
    /\ UNCHANGED <<params, args_path, fetch_history, devices, sensors, event_history,
                   i_hist, n_reconnects, n_streamed, raised>>

\* run_stream: the connection is lost while listening
ConnectionLost ==
    /\ pc = "events"
    /\ nth_reconnect' = nth_reconnect + 1
    /\ pc' = "while"
    /\ UNCHANGED <<params, args_path, fetch_history, devices, sensors, event_history,
                   i_hist, n_reconnects, n_streamed, raised>>

\* run_stream: the stream ends without an error; sleep, loop
StreamEnd ==
    /\ pc = "events"
    /\ pc' = "while"
    /\ UNCHANGED <<params, args_path, fetch_history, devices, sensors, event_history,
                   i_hist, nth_reconnect, n_reconnects, n_streamed, raised>>

\* run_stream: one event of the stream is served.  KeyError is caught (the
\* package is skipped, the loop goes on to reconnect); any other exception
\* ends the process.
Receive(event_data) ==
    /\ pc = "events"
    /\ LET r == Director_new_event_data(sensors, event_data, params)
       IN  /\ sensors' = r.sensors
           /\ pc' = CASE r.err = "none" -> "events"
                      [] r.err = "KeyError" -> "while"
                      [] OTHER -> "crashed"
           /\ raised' = IF r.err \in {"none", "KeyError"} THEN "none" ELSE r.err
    /\ n_streamed' = n_streamed + 1
    /\ UNCHANGED <<params, args_path, fetch_history, devices, event_history,
                   i_hist, nth_reconnect, n_reconnects>>

StreamEvent ==
    /\ n_streamed + Len(event_history) < MaxEvents
    /\ \E event_data \in StreamEvents : Receive(event_data)

Next ==
    \/ RunHistorySkip
    \/ RunHistoryEvent
    \/ RunHistoryDone
    \/ RunStreamLocal
    \/ RunStreamStart
    \/ RunStreamExit
    \/ Try
    \/ Connect
    \/ ConnectFail
    \/ ConnectionLost
    \/ StreamEnd
    \/ StreamEvent

Spec == Init /\ [][Next]_vars

---------------------------------------------------------------------------
(* An outage: the process as above, but every request of run_stream raises *)
(* ConnectionError or ChunkedEncodingError.  The process is one sequential *)
(* thread that keeps executing, hence the weak fairness of its steps.      *)

\* the process with a history of one event at most
InitOutage ==
    /\ Init
    /\ Len(event_history) <= 1

NextOutage ==
    \/ RunHistorySkip
    \/ RunHistoryEvent
    \/ RunHistoryDone
    \/ RunStreamLocal
    \/ RunStreamStart
    \/ RunStreamExit
    \/ Try
    \/ ConnectFail

SpecOutage == InitOutage /\ [][NextOutage]_vars /\ WF_vars(NextOutage)

---------------------------------------------------------------------------
(* One sensor fed well-formed samples in non-decreasing timestamp order:   *)
(* the Director is listening to the stream (no history was asked for),     *)
(* and every event is a temperature event of sensor s1.                    *)

Listening ==
    /\ args_path = FALSE
    /\ fetch_history = FALSE
    /\ devices = ProjectDevices
    /\ sensors = spawn_devices(ProjectDevices)
    /\ event_history = <<>>
    /\ pc = "events"
    /\ i_hist = 0
    /\ nth_reconnect = 0
    /\ n_reconnects = 5
    /\ n_streamed = 0
    /\ raised = "none"

\* timestamps of a first sample: 0, the robust cycle's length (the latest
\* start the first cycle does not fire on), and one week (beyond any cycle)
StartTimes(p) == {0, p.S_ROBUST_CYCLE, 7*24*60*60}

\* gaps between a sample and the next: none, the window and cycle lengths
\* themselves (the boundaries of the comparisons), beyond the cycle, and
\* beyond the robust window (the next robust window is then empty)
Steps(p) ==
    {0, p.S_DELAY, 2*p.S_DELAY, p.S_ROBUST_CYCLE, p.S_ROBUST_CYCLE + p.S_DELAY,
     p.S_DELAY + p.S_ROBUST_WIDTH + 1}

\* NextTimes with the order dropped: a sample may be older than the one
\* before it
NextTimesBackward(s, p) ==
    IF s.temperature_ux = <<>> THEN StartTimes(p)
    ELSE {Last(s.temperature_ux) + dt : dt \in Steps(p)}
           \cup {Last(s.temperature_ux) - dt : dt \in Steps(p)}

NextTimes(s, p) ==
    IF s.temperature_ux = <<>> THEN StartTimes(p)
    ELSE {Last(s.temperature_ux) + dt : dt \in Steps(p)}

InitFeed ==
    /\ params \in {DefaultParams, ScenarioParams, FloorParams, DailyParams}
    /\ Listening

Feed ==
    /\ sensors["s1"].n_samples < MaxSamples
    /\ \E t \in NextTimes(sensors["s1"], params), v \in Values :
          Receive(TemperatureEvent("s1", t * TicksPerSecond, v))

NextFeed == Feed

SpecFeed == InitFeed /\ [][NextFeed]_vars

---------------------------------------------------------------------------
(* The test scenario: DELAY = 1h, ROBUST_CYCLE = 2h, ROBUST_WIDTH = 4h,    *)
(* readings of 4.0 every 10 minutes, at most one of them replaced by 20.0. *)

InitScenario ==
    /\ params = ScenarioParams
    /\ Listening

ScenarioFeed ==
    /\ sensors["s1"].n_samples < MaxScenarioSamples
    /\ \E t \in (IF sensors["s1"].temperature_ux = <<>> THEN StartTimes(params)
                 ELSE {Last(sensors["s1"].temperature_ux) + 10*60}),
          v \in (IF 20*16 \in Range(sensors["s1"].temperature_y) THEN {4*16}
                 ELSE {4*16, 20*16}) :
          Receive(TemperatureEvent("s1", t * TicksPerSecond, v))

NextScenario == ScenarioFeed

SpecScenario == InitScenario /\ [][NextScenario]_vars

---------------------------------------------------------------------------
(* Replay: sensors s1 and s2 are each fed well-formed samples in           *)
(* non-decreasing order, in any interleaving.                              *)

InitReplay ==
    /\ params \in {DefaultParams, ScenarioParams}
    /\ Listening

\* the next sample's timestamp: at once, or when the robust cycle is due
\* and the sample before it lies in the robust window
ReplayTimes(s, p) ==
    IF s.temperature_ux = <<>> THEN {0, 7*24*60*60}
    ELSE {Last(s.temperature_ux) + dt : dt \in {0, p.S_ROBUST_CYCLE + p.S_DELAY}}

ReplayFeed ==
    \E id \in {"s1", "s2"} :
       /\ sensors[id].n_samples < MaxReplaySamples
       /\ \E t \in ReplayTimes(sensors[id], params), v \in Values :
             Receive(TemperatureEvent(id, t * TicksPerSecond, v))

NextReplay == ReplayFeed

SpecReplay == InitReplay /\ [][NextReplay]_vars

---------------------------------------------------------------------------
(* Configurations: parameters.py with S_ROBUST_CYCLE set to a whole number *)
(* of hours and N_ROBUST_DAYS to a whole number of days, one sensor fed as *)
(* in SpecFeed.                                                            *)

InitConfig ==
    /\ \E h \in 1..MaxCycleHours, d \in 1..MaxRobustDays :
          params = ConfigParams(60*60*h, d)
    /\ Listening

ConfigFeed ==
    /\ sensors["s1"].n_samples < MaxConfigSamples
    /\ \E t \in NextTimes(sensors["s1"], params), v \in Values :
          Receive(TemperatureEvent("s1", t * TicksPerSecond, v))

NextConfig == ConfigFeed

SpecConfig == InitConfig /\ [][NextConfig]_vars

---------------------------------------------------------------------------
(* Properties                                                              *)

IsNonDecreasing(s) == \A i \in 1..Len(s) - 1 : s[i] <= s[i + 1]

\* C1: after every ingest of a well-formed sample, fed in non-decreasing
\* timestamp order with DELAY > 0, the upper-bound, lower-bound and baseline
\* series each hold exactly n_samples entries, as does the temperature
\* series: one baseline entry and one bound entry per ingest.
C1_OneEntryPerIngest ==
    \A id \in DOMAIN sensors :
       LET s == sensors[id]
       IN  /\ Len(s.temperature_ux) = s.n_samples
           /\ Len(s.temperature_y) = s.n_samples
           /\ Len(s.level_ux) = s.n_samples
           /\ Len(s.level_y) = s.n_samples
           /\ Len(s.upper_bound_ux) = s.n_samples
           /\ Len(s.upper_bound_y) = s.n_samples
           /\ Len(s.lower_bound_ux) = s.n_samples
           /\ Len(s.lower_bound_y) = s.n_samples

\* samples were ingested both before and after the first robust entry
C1_Witness ==
    /\ params.S_DELAY > 0
    /\ sensors["s1"].n_samples = 4
    /\ Len(sensors["s1"].mad_y) = 2
    /\ Len(sensors["s1"].upper_bound_y) = 4

\* C2: a bound entry appended by an ingest call in which robust statistics
\* exist (n > 0) lies at least BOUND_MINVAL above and below the most recent
\* baseline value: upper - level >= BOUND_MINVAL, level - lower >= BOUND_MINVAL.
C2_BoundFloor ==
    \A id \in DOMAIN sensors :
       LET s == sensors[id]
       IN  (s.n_samples > 0 /\ NBounds(s, params) > 0) =>
              /\ Last(s.upper_bound_y) - Last(s.level_y) >= params.BOUND_MINVAL
              /\ Last(s.level_y) - Last(s.lower_bound_y) >= params.BOUND_MINVAL

\* a bound held up by the floor alone: the robust statistics by themselves
\* would put the upper bound below level + BOUND_MINVAL
C2_Witness ==
    LET s == sensors["s1"]
    IN  /\ params.BOUND_MINVAL > 0
        /\ NBounds(s, params) > 0
        /\ UpperOffsetNoFloor(s, params, NBounds(s, params)) < params.BOUND_MINVAL
        /\ Last(s.upper_bound_y) - Last(s.level_y) = params.BOUND_MINVAL

\* C3: an ingest whose timestamp is strictly smaller than that of the
\* sensor's previous sample is rejected (OutOfOrderSample): no call extends
\* a sensor's series with a sample older than the one before it.
C3_OutOfOrderRejected ==
    [][\A id \in DOMAIN sensors :
          (/\ sensors[id].temperature_ux # <<>>
           /\ Len(sensors'[id].upper_bound_y) > Len(sensors[id].upper_bound_y))
          => Last(sensors'[id].temperature_ux) >= Last(sensors[id].temperature_ux)]_vars

\* C4: an event with a malformed or missing field is dropped and leaves
\* every buffer of its sensor as it was (temperature_ux and temperature_y
\* keep equal length, n_samples counts them), later samples are processed
\* without error, and the process does not end on it.
C4_MalformedDropped ==
    /\ \A id \in DOMAIN sensors :
          /\ Len(sensors[id].temperature_ux) = Len(sensors[id].temperature_y)
          /\ Len(sensors[id].temperature_y) = sensors[id].n_samples
    /\ pc # "crashed"

\* C5: in the scenario (constant 4.0 every 10 minutes), the bound entry of
\* the ingest call that brings the one 20.0 sample, once robust statistics
\* exist, is upper = lower = 4.0: the spike is outside [lower, upper].
C5_SpikeOutOfBand ==
    LET s == sensors["s1"]
    IN  (s.n_samples > 0 /\ Last(s.temperature_y) = 20*16 /\ Len(s.mad_y) > 0) =>
           /\ Last(s.upper_bound_y) = 4*16
           /\ Last(s.lower_bound_y) = 4*16
           /\ Last(s.level_y) = 4*16
           /\ Last(s.temperature_y) > Last(s.upper_bound_y)

\* the spike arrives in the very call whose robust sampling fires
C5_Witness ==
    LET s == sensors["s1"]
    IN  /\ s.n_samples > 0
        /\ Last(s.temperature_y) = 20*16
        /\ Len(s.mad_y) = 2
        /\ s.robust_cycle = Last(s.temperature_ux)

\* C6: the engine state only moves forward, COLD -> WARMING -> STABLE: a
\* sensor that has samples keeps having samples, and once a bound was
\* computed with n > 0, every later call computes its bound with n > 0.
C6_StableStays ==
    [][\A id \in DOMAIN sensors :
          /\ sensors[id].n_samples > 0 => sensors'[id].n_samples > 0
          /\ NBounds(sensors[id], params) > 0 => NBounds(sensors'[id], params) > 0]_vars

\* robust statistics exist and the robust sampler then ran on an empty
\* window: the latest sample is newer than the entry stamped by the last run
\* that found data by more than DELAY
C6_Witness ==
    LET s == sensors["s1"]
    IN  /\ NBounds(s, params) > 0
        /\ s.robust_cycle = Last(s.temperature_ux)
        /\ Last(s.mad_ux) < Last(s.temperature_ux) - params.S_DELAY

\* C7: run_history serves the events in non-decreasing timestamp order,
\* whichever source the history came from (API or local file): the history
\* is sorted by update time when it is replayed.
C7_HistorySorted ==
    pc = "run_history" =>
       \A i \in 1..Len(event_history) - 1 :
          json_sort_key(event_history[i]) <= json_sort_key(event_history[i + 1])

\* C8: the number of robust entries is at most
\* floor(elapsed / ROBUST_CYCLE) + 1, elapsed being the latest ingested
\* timestamp minus the first.
C8_RobustEntriesBounded ==
    \A id \in DOMAIN sensors :
       LET s == sensors[id]
       IN  s.n_samples > 0 =>
              Len(s.mad_y) <=
                 ((Last(s.temperature_ux) - s.temperature_ux[1]) \div params.S_ROBUST_CYCLE) + 1

\* the bound is met: as many robust entries as the elapsed time allows
C8_Witness ==
    LET s == sensors["s1"]
    IN  /\ s.n_samples > 0
        /\ Len(s.mad_y) = 2
        /\ Len(s.mad_y) =
             ((Last(s.temperature_ux) - s.temperature_ux[1]) \div params.S_ROBUST_CYCLE) + 1

C10_PlaceholderBound ==
    \A id \in DOMAIN sensors :
       LET s == sensors[id]
       IN  /\ (s.n_samples > 0 /\ NBounds(s, params) = 0) =>
                 /\ Last(s.upper_bound_ux) = Last(s.temperature_ux) - params.S_DELAY
                 /\ Last(s.lower_bound_ux) = Last(s.temperature_ux) - params.S_DELAY
                 /\ Last(s.upper_bound_y) = Last(s.temperature_y)
                 /\ Last(s.lower_bound_y) = Last(s.temperature_y)
           /\ s.n_samples = 1 =>
                 /\ s.level_ux = <<s.temperature_ux[1] - params.S_DELAY>>
                 /\ s.level_y = <<s.temperature_y[1]>>

\* a placeholder that differs from the baseline of its call
C10_Witness ==
    LET s == sensors["s1"]
    IN  /\ s.n_samples > 1
        /\ NBounds(s, params) = 0
        /\ Last(s.upper_bound_y) # Last(s.level_y)

\* C11: in the scenario's configuration (DELAY 1h, ROBUST_CYCLE 2h,
\* ROBUST_WIDTH 4h, MMAD 1, BOUND_MINVAL 0, N_ROBUST_IN_BOUNDS 2), as long as
\* every reading fed at 10-minute intervals is 4.0, every baseline entry is
\* 4.0, every max-deviation, min-deviation and MAD entry is 0, every bound
\* entry has upper = lower = 4.0, and once the feed spans 10 hours at least
\* one robust entry exists.
C11_ConstantScenario ==
    LET s == sensors["s1"]
    IN  (\A i \in 1..Len(s.temperature_y) : s.temperature_y[i] = 4*16) =>
           /\ \A i \in 1..Len(s.level_y) : s.level_y[i] = 4*16
           /\ \A i \in 1..Len(s.maxval_y) : s.maxval_y[i] = 0
           /\ \A i \in 1..Len(s.minval_y) : s.minval_y[i] = 0
           /\ \A i \in 1..Len(s.mad_y) : s.mad_y[i] = 0
           /\ \A i \in 1..Len(s.upper_bound_y) : s.upper_bound_y[i] = 4*16
           /\ \A i \in 1..Len(s.lower_bound_y) : s.lower_bound_y[i] = 4*16
           /\ (s.n_samples > 0 /\ Last(s.temperature_ux) - s.temperature_ux[1] >= 10*60*60)
                 => Len(s.mad_y) >= 1

\* ten hours of constant readings from time 0: 61 samples, four robust
\* entries
C11_Witness ==
    LET s == sensors["s1"]
    IN  /\ params = ScenarioParams
        /\ \A i \in 1..Len(s.temperature_y) : s.temperature_y[i] = 4*16
        /\ s.n_samples = 61
        /\ s.temperature_ux[1] = 0
        /\ Last(s.temperature_ux) = 10*60*60
        /\ Len(s.mad_y) = 4

\* C12: when the timestamps fed to a sensor are non-decreasing (the feed of
\* SpecFeed: every sample is at or after the one before it), the timestamps
\* of each derived series (baseline, max-deviation, min-deviation, MAD,
\* upper bound, lower bound) are non-decreasing in entry order, after any
\* sequence of ingest calls.
C12_SeriesTimesNonDecreasing ==
    \A id \in DOMAIN sensors :
       LET s == sensors[id]
       IN     /\ IsNonDecreasing(s.temperature_ux)
              /\ IsNonDecreasing(s.level_ux)
              /\ IsNonDecreasing(s.maxval_ux)
              /\ IsNonDecreasing(s.minval_ux)
              /\ IsNonDecreasing(s.mad_ux)
              /\ IsNonDecreasing(s.upper_bound_ux)
              /\ IsNonDecreasing(s.lower_bound_ux)

\* every derived series holds entries of different times, and samples of
\* equal time were fed too
C12_Witness ==
    LET s == sensors["s1"]
    IN  /\ IsNonDecreasing(s.temperature_ux)
        /\ Len(s.mad_ux) = 2
        /\ s.mad_ux[1] < s.mad_ux[2]
        /\ s.maxval_ux[1] < s.maxval_ux[2]
        /\ s.minval_ux[1] < s.minval_ux[2]
        /\ \E i \in 1..Len(s.level_ux) - 1 : s.level_ux[i] = s.level_ux[i + 1]
        /\ s.level_ux[1] < Last(s.level_ux)
        /\ s.upper_bound_ux[1] < Last(s.upper_bound_ux)
        /\ s.lower_bound_ux[1] < Last(s.lower_bound_ux)

\* the max-deviation, min-deviation and MAD series of s are parallel: same
\* length, pairwise the same timestamps
RobustSeriesParallel(s) ==
    /\ Len(s.maxval_y) = Len(s.maxval_ux)
    /\ Len(s.minval_y) = Len(s.minval_ux)
    /\ Len(s.mad_y) = Len(s.mad_ux)
    /\ s.maxval_ux = s.minval_ux
    /\ s.minval_ux = s.mad_ux

\* C13: in every reachable state the max-deviation, min-deviation and MAD
\* series have the same length and pairwise the same timestamps; one step
\* extends them by at most one entry each, and only if it is an ingest in
\* which the robust cycle fires (t - robust_cycle > ROBUST_CYCLE) and the
\* robust window [t - DELAY - ROBUST_WIDTH, t - DELAY] selects at least one
\* temperature sample.
C13_RobustSeriesGrowth ==
    [][\A id \in DOMAIN sensors :
          LET a == sensors[id]
              b == sensors'[id]
          IN  /\ RobustSeriesParallel(a)
              /\ RobustSeriesParallel(b)
              /\ \/ Len(b.mad_y) = Len(a.mad_y)
                 \/ /\ Len(b.mad_y) = Len(a.mad_y) + 1
                    /\ Len(b.temperature_ux) = Len(a.temperature_ux) + 1
                    /\ LET t == Last(b.temperature_ux)
                       IN  /\ t - a.robust_cycle > params.S_ROBUST_CYCLE
                           /\ \E i \in 1..Len(b.temperature_ux) :
                                 /\ b.temperature_ux[i] >= t - params.S_DELAY - params.S_ROBUST_WIDTH
                                 /\ b.temperature_ux[i] <= t - params.S_DELAY]_vars

\* the robust cycle fired on an empty window, adding nothing, and fired
\* again later on a window with a sample, adding one entry to each series
C13_Witness ==
    \E id \in DOMAIN sensors :
       LET s == sensors[id]
       IN  /\ s.n_samples = 2
           /\ s.temperature_ux[1] > params.S_ROBUST_CYCLE
           /\ s.robust_cycle = s.temperature_ux[2]
           /\ s.robust_cycle > s.temperature_ux[1]
           /\ Len(s.mad_y) = 1
           /\ Len(s.maxval_y) = 1
           /\ Len(s.minval_y) = 1

\* serving event_data left every sensor but the one it is addressed to as
\* it was, and every sensor if it carries no temperature record
OnlyAddresseeChanged(event_data) ==
    /\ \A id \in DOMAIN sensors :
          id # basename(event_data.targetName) => sensors'[id] = sensors[id]
    /\ "temperature" \notin DOMAIN event_data.data => sensors' = sensors

\* C14: sensor states are independent: an event the Director dispatches
\* (from the history or from the stream) changes at most the one sensor
\* whose id is the basename of the event's targetName and leaves every
\* series and counter of every other sensor unchanged; an event without a
\* temperature record changes no sensor; no step changes two sensors.
C14_SensorsIndependent ==
    [][/\ DOMAIN sensors' = DOMAIN sensors
       /\ \A event_data \in StreamEvents :
             Receive(event_data) => OnlyAddresseeChanged(event_data)
       /\ RunHistoryEvent => OnlyAddresseeChanged(event_history[i_hist + 1])
       /\ \A a, b \in DOMAIN sensors :
             a # b => (sensors'[a] = sensors[a] \/ sensors'[b] = sensors[b])]_vars

\* s1 and s2 each ingested a sample of their own, and a third event (of
\* another type, or of a device without a sensor) was served and changed
\* neither
C14_Witness ==
    /\ n_streamed = 3
    /\ pc = "events"
    /\ sensors["s1"].n_samples = 1
    /\ sensors["s2"].n_samples = 1
    /\ sensors["s1"].temperature_y # sensors["s2"].temperature_y

\* C15: a sensor is created on the first-seen device id: when a temperature
\* event arrives for an id that has no sensor yet, one is created for it and
\* the sample is ingested into it, so no temperature sample is lost: after
\* a well-formed temperature event is served, a sensor of its device id
\* exists and holds one sample more than before.
C15_CreatedOnFirstSeen ==
    [][\A event_data \in WellFormedEvents :
          Receive(event_data) =>
             LET source_id == basename(event_data.targetName)
             IN  /\ source_id \in DOMAIN sensors'
                 /\ sensors'[source_id].n_samples =
                       (IF source_id \in DOMAIN sensors
                        THEN sensors[source_id].n_samples ELSE 0) + 1]_vars

\* C16: reconnect retries are bounded: when every connection attempt
\* fails with a connection or chunked-encoding error, run_stream stops
\* retrying and returns (after n_reconnects consecutive failed attempts),
\* for every n_reconnects >= 1.
C16_RetriesBounded ==
    (pc = "while") ~> (pc = "done")

\* C17: for well-formed samples in non-decreasing timestamp order with
\* DELAY > 0 no ingest call fails: no exception comes out of a call, the
\* delay window of every call selects a sample (its median exists), the
\* level list has the length of the temperature list (the robust mask fits
\* it, and its last element exists when the bound is calculated), and
\* whenever n > 0 the max-deviation, min-deviation and MAD lists hold the n
\* entries whose medians are taken.
C17_NoIngestFails ==
    /\ raised = "none"
    /\ pc = "events"
    /\ \A id \in DOMAIN sensors :
          LET s == sensors[id]
          IN  /\ Len(s.temperature_y) = Len(s.temperature_ux)
              /\ Len(s.level_y) = Len(s.temperature_ux)
              /\ s.n_samples > 0 =>
                    \E i \in 1..Len(s.temperature_ux) :
                       s.temperature_ux[i] > Last(s.temperature_ux) - 2*params.S_DELAY
              /\ NBounds(s, params) > 0 =>
                    /\ Len(s.level_y) > 0
                    /\ Len(s.maxval_y) >= NBounds(s, params)
                    /\ Len(s.minval_y) >= NBounds(s, params)
                    /\ Len(s.mad_y) >= NBounds(s, params)

\* the fourth call returned: its robust sampling applied the mask to the
\* four levels and found samples in the window, its bound was calculated
C17_Witness ==
    LET s == sensors["s1"]
    IN  /\ params.S_DELAY > 0
        /\ raised = "none"
        /\ s.n_samples = 4
        /\ Len(s.level_y) = 4
        /\ s.robust_cycle = Last(s.temperature_ux)
        /\ Len(s.mad_y) >= 1
        /\ Last(s.mad_ux) = Last(s.temperature_ux) - params.S_DELAY

\* C18: robust-cycle gating: in an ingest call at time t the robust sampler
\* runs if and only if t - robust_cycle > ROBUST_CYCLE (strictly; the
\* tracker starts at 0); when it runs it sets robust_cycle = t whether or
\* not its window was empty; otherwise robust_cycle and the robust series
\* are left as they were.  Hence two consecutive runs are more than
\* ROBUST_CYCLE apart, and a run on an empty window is not repeated on the
\* following ingest.
C18_RobustCycleGating ==
    [][\A id \in DOMAIN sensors :
          LET a == sensors[id]
              b == sensors'[id]
          IN  /\ a.n_samples = 0 => a.robust_cycle = 0
              /\ IF Len(b.temperature_ux) = Len(a.temperature_ux) + 1
                 THEN LET t == Last(b.temperature_ux)
                      IN  IF t - a.robust_cycle > params.S_ROBUST_CYCLE
                          THEN b.robust_cycle = t
                          ELSE /\ b.robust_cycle = a.robust_cycle
                               /\ b.mad_ux = a.mad_ux /\ b.mad_y = a.mad_y
                               /\ b.maxval_ux = a.maxval_ux /\ b.maxval_y = a.maxval_y
                               /\ b.minval_ux = a.minval_ux /\ b.minval_y = a.minval_y
                 ELSE b.robust_cycle = a.robust_cycle
              /\ b.robust_cycle # a.robust_cycle =>
                    b.robust_cycle - a.robust_cycle > params.S_ROBUST_CYCLE]_vars

\* the sampler ran on an empty window (the tracker moved, no entry exists),
\* and the ingest that followed, at a later time, did not run it again
C18_Witness ==
    LET s == sensors["s1"]
    IN  /\ s.n_samples = 2
        /\ s.robust_cycle = s.temperature_ux[1]
        /\ s.robust_cycle > 0
        /\ s.temperature_ux[2] > s.robust_cycle
        /\ Len(s.mad_y) = 0

\* the indices the robust window of a sampler run at the latest sample of s
\* selects: both ends inclusive
WindowIndices(s) ==
    LET t == Last(s.temperature_ux)
    IN  {i \in 1..Len(s.temperature_ux) :
            /\ t - params.S_DELAY - params.S_ROBUST_WIDTH <= s.temperature_ux[i]
            /\ s.temperature_ux[i] <= t - params.S_DELAY}

\* temperature minus baseline at the same index, for the indices of I in
\* increasing order (I is a range of consecutive indices)
DeviationAt(s, I) ==
    LET lo == CHOOSE i \in I : \A j \in I : i <= j
    IN  [k \in 1..Cardinality(I) |->
            s.temperature_y[lo + k - 1] - s.level_y[lo + k - 1]]

\* C19: when the robust sampler runs at time t it selects exactly the
\* indices i with t - DELAY - ROBUST_WIDTH <= temperature_ux[i] <= t - DELAY,
\* forms deviation[i] = temperature_y[i] - level_y[i] with the baseline at
\* the same index, and if the selection is non-empty appends
\* (t - DELAY, max deviation), (t - DELAY, min deviation) and
\* (t - DELAY, median |deviation - median(deviation)|) to the max-deviation,
\* min-deviation and MAD series; if it is empty it appends nothing.
C19_RobustSamplerEntries ==
    [][\A id \in DOMAIN sensors :
          LET a == sensors[id]
              b == sensors'[id]
          IN  (/\ Len(b.temperature_ux) = Len(a.temperature_ux) + 1
               /\ Last(b.temperature_ux) - a.robust_cycle > params.S_ROBUST_CYCLE)
              =>
              LET I == WindowIndices(b)
                  stamp == Last(b.temperature_ux) - params.S_DELAY
              IN  IF I = {}
                  THEN /\ b.maxval_ux = a.maxval_ux /\ b.maxval_y = a.maxval_y
                       /\ b.minval_ux = a.minval_ux /\ b.minval_y = a.minval_y
                       /\ b.mad_ux = a.mad_ux /\ b.mad_y = a.mad_y
                  ELSE \E dev \in {DeviationAt(b, I)} :
                       \E med \in {Median(dev)} :
                       \E absdev \in {[k \in 1..Len(dev) |-> Abs(dev[k] - med)]} :
                           /\ \A i, j \in I : \A k \in i..j : k \in I
                           /\ b.maxval_ux = Append(a.maxval_ux, stamp)
                           /\ b.minval_ux = Append(a.minval_ux, stamp)
                           /\ b.mad_ux = Append(a.mad_ux, stamp)
                           /\ b.maxval_y = Append(a.maxval_y,
                                 CHOOSE x \in Range(dev) : \A y \in Range(dev) : y <= x)
                           /\ b.minval_y = Append(a.minval_y,
                                 CHOOSE x \in Range(dev) : \A y \in Range(dev) : x <= y)
                           /\ b.mad_y = Append(a.mad_y, Median(absdev))]_vars

\* the sampler ran on a window that holds some of the samples but not the
\* latest, with deviations that differ, and a baseline that differs from
\* one index of the window to another
C19_Witness ==
    LET s == sensors["s1"]
    IN  /\ s.n_samples = 4
        /\ s.robust_cycle = Last(s.temperature_ux)
        /\ Len(s.mad_ux) = 1
        /\ s.mad_ux[1] = Last(s.temperature_ux) - params.S_DELAY
        /\ Cardinality(WindowIndices(s)) \in {2, 3}
        /\ Last(s.maxval_y) > Last(s.minval_y)
        /\ Last(s.mad_y) > 0
        /\ \E i, j \in WindowIndices(s) : s.level_y[i] # s.level_y[j]

\* C20: for every ingest call at time t with
\* n = min(length of the MAD series, N_ROBUST_IN_BOUNDS) > 0 the bound entry
\* appended is (t - DELAY,
\*   level + max(BOUND_MINVAL, median(last n max-deviations) + MMAD * median(last n MADs)),
\*   level + min(-BOUND_MINVAL, median(last n min-deviations) - MMAD * median(last n MADs))),
\* level being the most recent baseline value; robust entries older than
\* the last N_ROBUST_IN_BOUNDS have no part in it.
C20_BoundFormula ==
    \A id \in DOMAIN sensors :
       LET s == sensors[id]
           len == Len(s.mad_y)
           n == IF len < params.N_ROBUST_IN_BOUNDS THEN len ELSE params.N_ROBUST_IN_BOUNDS
       IN  (s.n_samples > 0 /\ n > 0) =>
              LET max_med == Median(SubSeq(s.maxval_y, len - n + 1, len))
                  min_med == Median(SubSeq(s.minval_y, len - n + 1, len))
                  mad_med == Median(SubSeq(s.mad_y, len - n + 1, len))
                  up == max_med + params.MMAD * mad_med
                  lo == min_med - params.MMAD * mad_med
              IN  /\ Last(s.upper_bound_ux) = Last(s.temperature_ux) - params.S_DELAY
                  /\ Last(s.lower_bound_ux) = Last(s.temperature_ux) - params.S_DELAY
                  /\ Last(s.upper_bound_y) = Last(s.level_y) +
                        (IF up > params.BOUND_MINVAL THEN up ELSE params.BOUND_MINVAL)
                  /\ Last(s.lower_bound_y) = Last(s.level_y) +
                        (IF lo < -params.BOUND_MINVAL THEN lo ELSE -params.BOUND_MINVAL)

\* more robust entries exist than the bound takes, the older ones differ
\* from the ones taken, and the bound is not the one all entries would give
C20_Witness ==
    LET s == sensors["s1"]
    IN  /\ s.n_samples > 0
        /\ Len(s.mad_y) > params.N_ROBUST_IN_BOUNDS
        /\ s.maxval_y[1] # Last(s.maxval_y)
        /\ s.mad_y[1] # Last(s.mad_y)
        /\ Last(s.upper_bound_y) # Last(s.level_y) + UpperOffset(s, params, Len(s.mad_y))

\* the indices of the samples of s newer than 2*DELAY before the latest
DelayIndices(s) ==
    {i \in 1..Len(s.temperature_ux) :
        s.temperature_ux[i] > Last(s.temperature_ux) - 2*params.S_DELAY}

\* the k-th smallest of the values y[i], i in I, counted with repetition
KthSmallest(y, I, k) ==
    CHOOSE x \in {y[i] : i \in I} :
       /\ Cardinality({i \in I : y[i] < x}) < k
       /\ k <= Cardinality({i \in I : y[i] <= x})

\* the median of the values y[i], i in I: the middle one in order, the mean
\* of the two middle ones when their number is even
MedianOver(y, I) ==
    LET n == Cardinality(I)
    IN  IF n % 2 = 1 THEN KthSmallest(y, I, (n + 1) \div 2)
        ELSE (KthSmallest(y, I, n \div 2) + KthSmallest(y, I, n \div 2 + 1)) \div 2

\* C21: the baseline entry an ingest call at time t appends is
\* (t - DELAY, m), m being the median of the values of exactly the buffered
\* samples, the current one included, whose timestamp is strictly greater
\* than t - 2*DELAY (a sample at exactly t - 2*DELAY is excluded); for an
\* even number of values m is the mean of the two middle ones.
C21_BaselineEntry ==
    \A id \in DOMAIN sensors :
       LET s == sensors[id]
       IN  s.n_samples > 0 =>
              /\ Len(s.level_y) = s.n_samples
              /\ Last(s.level_ux) = Last(s.temperature_ux) - params.S_DELAY
              /\ Last(s.level_y) = MedianOver(s.temperature_y, DelayIndices(s))

\* a sample lies at exactly t - 2*DELAY and is left out, the selection is
\* of even size with two different middle values, and the baseline is the
\* mean between them
C21_Witness ==
    LET s == sensors["s1"]
    IN  /\ s.n_samples = 3
        /\ s.temperature_ux[1] = Last(s.temperature_ux) - 2*params.S_DELAY
        /\ DelayIndices(s) = {2, 3}
        /\ s.temperature_y[2] # s.temperature_y[3]
        /\ 2 * Last(s.level_y) = s.temperature_y[2] + s.temperature_y[3]

\* C22 as stated: N_ROBUST_IN_BOUNDS is (24h / ROBUST_CYCLE) * N_ROBUST_DAYS
\* rounded to the nearest integer, in every configuration: it is within one
\* half of the product (a product that ends in .5 may go either way).
C22_RoundedToNearest ==
    2 * Abs(params.N_ROBUST_IN_BOUNDS * params.S_ROBUST_CYCLE
              - (60*60*24) * params.N_ROBUST_DAYS) <= params.S_ROBUST_CYCLE

\* C22, amended: N_ROBUST_IN_BOUNDS is (24h / ROBUST_CYCLE) * N_ROBUST_DAYS
\* rounded down: the largest integer not above the product (7 for the
\* default 16 h and 5 days, whose product is 7.5).
C22_RoundedDown ==
    /\ params.N_ROBUST_IN_BOUNDS * params.S_ROBUST_CYCLE
          <= (60*60*24) * params.N_ROBUST_DAYS
    /\ (60*60*24) * params.N_ROBUST_DAYS
          < (params.N_ROBUST_IN_BOUNDS + 1) * params.S_ROBUST_CYCLE
    /\ (params.S_ROBUST_CYCLE = S_ROBUST_CYCLE /\ params.N_ROBUST_DAYS = N_ROBUST_DAYS)
          => params.N_ROBUST_IN_BOUNDS = 7

\* a configuration whose product lies above the half (24/9 = 2.67, taken
\* as 2), with a sample ingested under it
C22_Witness ==
    /\ params.S_ROBUST_CYCLE = 60*60*9
    /\ params.N_ROBUST_DAYS = 1
    /\ params.N_ROBUST_IN_BOUNDS = 2
    /\ sensors["s1"].n_samples = 2
    /\ NBounds(sensors["s1"], params) = 1

\* sequence a is the beginning of sequence b
IsPrefix(a, b) ==
    /\ Len(a) <= Len(b)
    /\ \A i \in 1..Len(a) : b[i] = a[i]

\* C23: every series is append-only: in every step the temperature,
\* baseline, max-deviation, min-deviation, MAD, upper-bound and lower-bound
\* series (timestamps and values) after the step each begin with what they
\* were before it; no ingest call modifies or removes an earlier entry.
C23_AppendOnly ==
    [][\A id \in DOMAIN sensors :
          LET a == sensors[id]
              b == sensors'[id]
          IN  /\ IsPrefix(a.temperature_ux, b.temperature_ux)
              /\ IsPrefix(a.temperature_y, b.temperature_y)
              /\ IsPrefix(a.level_ux, b.level_ux)
              /\ IsPrefix(a.level_y, b.level_y)
              /\ IsPrefix(a.maxval_ux, b.maxval_ux)
              /\ IsPrefix(a.maxval_y, b.maxval_y)
              /\ IsPrefix(a.minval_ux, b.minval_ux)
              /\ IsPrefix(a.minval_y, b.minval_y)
              /\ IsPrefix(a.mad_ux, b.mad_ux)
              /\ IsPrefix(a.mad_y, b.mad_y)
              /\ IsPrefix(a.upper_bound_ux, b.upper_bound_ux)
              /\ IsPrefix(a.upper_bound_y, b.upper_bound_y)
              /\ IsPrefix(a.lower_bound_ux, b.lower_bound_ux)
              /\ IsPrefix(a.lower_bound_y, b.lower_bound_y)]_vars

\* four calls, the last three of which each added a robust entry to the
\* ones before: more robust entries than the bounds take
C23_Witness ==
    LET s == sensors["s1"]
    IN  /\ s.n_samples = 4
        /\ Len(s.level_y) = 4
        /\ Len(s.upper_bound_y) = 4
        /\ Len(s.lower_bound_y) = 4
        /\ Len(s.maxval_y) = 3
        /\ Len(s.minval_y) = 3
        /\ Len(s.mad_y) = 3
        /\ Len(s.mad_y) > params.N_ROBUST_IN_BOUNDS

\* C24: within one ingest call the steps run in the order baseline, robust
\* sampler (when due), bound calculator: the call whose robust sampler
\* appends the first robust entry is itself the first call whose bound is
\* calculated with n > 0 (every bound before it is a placeholder, its own
\* is calculated from the entry just appended), and the baseline in that
\* bound is the one the same call appended.
C24_StepsInOrder ==
    [][\A id \in DOMAIN sensors :
          LET a == sensors[id]
              b == sensors'[id]
          IN  (Len(a.mad_y) = 0 /\ Len(b.mad_y) = 1) =>
                 /\ a.upper_bound_y = a.temperature_y
                 /\ a.lower_bound_y = a.temperature_y
                 /\ Len(b.level_y) = Len(a.level_y) + 1
                 /\ Len(b.upper_bound_y) = Len(a.upper_bound_y) + 1
                 /\ Last(b.upper_bound_y) = Last(b.level_y) +
                       Max2(params.BOUND_MINVAL, b.maxval_y[1] + params.MMAD * b.mad_y[1])
                 /\ Last(b.lower_bound_y) = Last(b.level_y) +
                       Min2(-params.BOUND_MINVAL, b.minval_y[1] - params.MMAD * b.mad_y[1])]_vars

\* the call that appended the first robust entry has just returned: its
\* bound is not the placeholder, and the baseline it appended differs from
\* the one before
C24_Witness ==
    LET s == sensors["s1"]
    IN  /\ s.n_samples = 3
        /\ Len(s.mad_y) = 1
        /\ s.robust_cycle = s.temperature_ux[3]
        /\ s.mad_ux[1] = s.temperature_ux[3] - params.S_DELAY
        /\ s.upper_bound_y[1] = s.temperature_y[1]
        /\ s.upper_bound_y[2] = s.temperature_y[2]
        /\ s.upper_bound_y[3] # s.temperature_y[3]
        /\ s.level_y[3] # s.level_y[2]
        /\ s.upper_bound_y[3] = s.level_y[3] + s.maxval_y[1] + params.MMAD * s.mad_y[1]

\* C25: when the first sample's timestamp t0 exceeds ROBUST_CYCLE and
\* DELAY > 0, the first ingest call runs the robust sampler on an empty
\* window and consumes the cycle (robust_cycle starts at 0): no robust entry
\* is produced by, and every bound is the placeholder (value, value) for,
\* all samples with timestamp <= t0 + ROBUST_CYCLE.
C25_FirstCycleConsumed ==
    \A id \in DOMAIN sensors :
       LET s == sensors[id]
           t0 == s.temperature_ux[1]
           end == t0 + params.S_ROBUST_CYCLE
       IN  (s.n_samples >= 1 /\ t0 > params.S_ROBUST_CYCLE /\ params.S_DELAY > 0) =>
              /\ s.robust_cycle >= t0
              /\ Last(s.temperature_ux) <= end =>
                    /\ s.robust_cycle = t0
                    /\ s.mad_y = <<>> /\ s.maxval_y = <<>> /\ s.minval_y = <<>>
              /\ Len(s.upper_bound_y) = Len(s.temperature_ux)
              /\ Len(s.lower_bound_y) = Len(s.temperature_ux)
              /\ \A i \in 1..Len(s.temperature_ux) :
                    s.temperature_ux[i] <= end =>
                       /\ s.upper_bound_y[i] = s.temperature_y[i]
                       /\ s.lower_bound_y[i] = s.temperature_y[i]
              /\ \A k \in 1..Len(s.mad_ux) : s.mad_ux[k] + params.S_DELAY > end
              /\ \A k \in 1..Len(s.maxval_ux) : s.maxval_ux[k] + params.S_DELAY > end
              /\ \A k \in 1..Len(s.minval_ux) : s.minval_ux[k] + params.S_DELAY > end

\* a feed starting beyond the cycle length, with a sample exactly at
\* t0 + ROBUST_CYCLE whose robust window would have held data and whose
\* baseline differs from its value, followed by the first sample past it,
\* which produces the first robust entry and a calculated bound
C25_Witness ==
    LET s == sensors["s1"]
    IN  /\ s.n_samples = 4
        /\ params.S_DELAY > 0
        /\ s.temperature_ux[1] > params.S_ROBUST_CYCLE
        /\ s.temperature_ux[2] <= s.temperature_ux[3] - params.S_DELAY
        /\ s.temperature_ux[3] = s.temperature_ux[1] + params.S_ROBUST_CYCLE
        /\ s.temperature_ux[4] > s.temperature_ux[3]
        /\ s.level_y[3] # s.temperature_y[3]
        /\ s.upper_bound_y[3] = s.temperature_y[3]
        /\ Len(s.mad_y) = 1
        /\ s.mad_ux[1] = s.temperature_ux[4] - params.S_DELAY
        /\ s.upper_bound_y[4] # s.temperature_y[4]

\* the series whose i-th element is temperature_ux[i] - DELAY
DelayedTimes(s, p) ==
    [i \in 1..Len(s.temperature_ux) |-> s.temperature_ux[i] - p.S_DELAY]

\* C26: in every state reached through well-formed ingest calls the
\* upper-bound, lower-bound and baseline timestamp lists are identical
\* element by element, their i-th element being temperature_ux[i] - DELAY;
\* every robust-series timestamp is temperature_ux[j] - DELAY for an ingest
\* call j, the same j in the three robust series.
C26_TimestampsDelayed ==
    \A id \in DOMAIN sensors :
       LET s == sensors[id]
       IN  /\ s.level_ux = DelayedTimes(s, params)
           /\ s.upper_bound_ux = DelayedTimes(s, params)
           /\ s.lower_bound_ux = DelayedTimes(s, params)
           /\ s.maxval_ux = s.mad_ux
           /\ s.minval_ux = s.mad_ux
           /\ \A k \in 1..Len(s.mad_ux) :
                 \E j \in 1..Len(s.temperature_ux) :
                    s.mad_ux[k] = s.temperature_ux[j] - params.S_DELAY

\* four samples at four different times, placeholder bounds followed by
\* calculated ones, and two robust entries
C26_Witness ==
    LET s == sensors["s1"]
    IN  /\ s.n_samples = 4
        /\ params.S_DELAY > 0
        /\ \A i \in 1..3 : s.temperature_ux[i] < s.temperature_ux[i + 1]
        /\ Len(s.upper_bound_ux) = 4
        /\ s.upper_bound_ux[4] = s.temperature_ux[4] - params.S_DELAY
        /\ s.upper_bound_y[1] = s.temperature_y[1]
        /\ s.upper_bound_y[4] # s.temperature_y[4]
        /\ Len(s.mad_ux) = 2
        /\ s.mad_ux[1] = s.temperature_ux[3] - params.S_DELAY
        /\ s.mad_ux[2] = s.temperature_ux[4] - params.S_DELAY

====
